---- MODULE Spec2Model ----
(***************************************************************************)
(* Model of termion-raw2: the raw-mode guard RawTerminal<W> (src/lib.rs)   *)
(* and the termios helpers it is built from (src/sys.rs).                  *)
(*                                                                         *)
(* One terminal device is shared by all handles.  Its termios settings are *)
(* the variable `live`.  Every libc call takes its return code (0 or -1)   *)
(* from the environment, so that each `?` of the code can take both        *)
(* branches.  Each handler is one action; the syscalls it makes are        *)
(* recorded, in order, in `last.calls`.                                    *)
(***************************************************************************)
EXTENDS Integers, Sequences, FiniteSets, TLC

VARIABLES
    live,       \* termios settings of the terminal device (kernel side)
    handle,     \* handle[h]: who owns writer h: "caller", "guard" or "dropped"
    guard,      \* guard[h]: the RawTerminal built from h, or None
    phase,      \* guard[h]'s state in the state machine of the specification
    captured,   \* what get_terminal_attr returned when guard[h] was built
    clean,      \* no party other than guard[h] wrote `live` since it was built
    quiet,      \* no other party wrote `live` since guard[h] last wrote it
    restores,   \* number of tcsetattr calls made by drop of guard[h]
    failed,     \* a suspend or activate of guard[h] has returned an error
    over,       \* what guard[h] was created over: "none" when the other
                \* writer had no live guard, "raw" when it had one in RAW
                \* state that no other party had disturbed, else "other"
    last,       \* the most recent operation: its inputs, syscalls and result
    sink,       \* sink[h]: the bytes the wrapped writer h has taken, in order
    sent,       \* sent[h]: the bytes guard[h] told its callers it had written
    wlast,      \* the most recent write or flush through a guard
    pc,         \* pc[h]: where the thread that uses writer h stands
    loc         \* loc[h]: the local `ios` of that thread between two calls

ioVars   == <<sink, sent, wlast>>
raceVars == <<pc, loc>>

vars == <<live, handle, guard, phase, captured, clean, quiet, restores,
          failed, over, last, sink, sent, wlast, pc, loc>>

----------------------------------------------------------------------------
(* Termios values.  A flag word is the set of the names of its set bits.   *)

\* writers (each exposes a descriptor of the one terminal device)
Handles == {1, 2}

None == [none |-> TRUE]

\* bits of the character-size field of c_cflag: CS5 = {}, CS8 = both
CSIZE == {"CSIZE_LO", "CSIZE_HI"}
CS7   == {"CSIZE_HI"}
CS8   == {"CSIZE_LO", "CSIZE_HI"}

\* a terminal in the usual line-buffered, echoing mode
Cooked ==
    [c_iflag |-> {"ICRNL", "IXON", "IUTF8"},
     c_oflag |-> {"OPOST", "ONLCR"},
     c_cflag |-> CS8 \cup {"CREAD"},
     c_lflag |-> {"ISIG", "ICANON", "ECHO", "IEXTEN"},
     c_cc    |-> [VMIN |-> 1, VTIME |-> 0]]

\* a 7-bit serial line with parity
Serial7 ==
    [c_iflag |-> {"ISTRIP", "IGNBRK"},
     c_oflag |-> {},
     c_cflag |-> CS7 \cup {"PARENB", "CREAD", "CLOCAL"},
     c_lflag |-> {"ICANON"},
     c_cc    |-> [VMIN |-> 1, VTIME |-> 0]]

\* a non-canonical terminal with a read timeout
Timed ==
    [c_iflag |-> {"IUTF8"},
     c_oflag |-> {},
     c_cflag |-> CS8 \cup {"CREAD"},
     c_lflag |-> {"ISIG"},
     c_cc    |-> [VMIN |-> 0, VTIME |-> 1]]

\* settings a terminal may have, or be given by another process
Terminals == {Cooked, Serial7, Timed}

\* mem::zeroed()
Zeroed ==
    [c_iflag |-> {}, c_oflag |-> {}, c_cflag |-> {}, c_lflag |-> {},
     c_cc    |-> [VMIN |-> 0, VTIME |-> 0]]

\* bytes a caller may write, and the buffers it passes
Bytes == {0, 1}

MaxBuf == 2

MaxSink == 3

Bufs == UNION {[1..n -> Bytes] : n \in 0..MaxBuf}

\* return codes of the libc calls
RetCodes == {0, -1}

----------------------------------------------------------------------------
(* src/sys.rs *)

Ok(v) == [ok |-> TRUE, val |-> v]
Err   == [ok |-> FALSE, val |-> "last_os_error"]

is_minus_one(t) == t = -1

cvt(t) == IF is_minus_one(t) THEN Err ELSE Ok(t)

\* libc::cfmakeraw, the platform's raw-mode transform that raw_terminal_attr
\* calls: it clears the input-translation, output-processing, canonical,
\* echo, signal and parity bits, sets 8-bit characters, VMIN = 1, VTIME = 0
cfmakeraw(t) ==
    [c_iflag |-> t.c_iflag \ {"IGNBRK", "BRKINT", "PARMRK", "ISTRIP",
                              "INLCR", "IGNCR", "ICRNL", "IXON"},
     c_oflag |-> t.c_oflag \ {"OPOST"},
     c_lflag |-> t.c_lflag \ {"ECHO", "ECHONL", "ICANON", "ISIG", "IEXTEN"},
     c_cflag |-> (t.c_cflag \ (CSIZE \cup {"PARENB"})) \cup CS8,
     c_cc    |-> [VMIN |-> 1, VTIME |-> 0]]

\* libc::tcgetattr: on success the device's settings are stored in *termios
tcgetattr(fd, termios, rc, dev) ==
    [rc |-> rc, termios |-> IF rc = 0 THEN dev ELSE termios]

\* libc::tcsetattr(fd, TCSANOW, termios): on success the device takes them
tcsetattr(fd, termios, rc, dev) ==
    [rc |-> rc, dev |-> IF rc = 0 THEN termios ELSE dev]

\* records of the syscalls an operation makes
GetCall(fd, rc)    == [name |-> "tcgetattr", fd |-> fd, arg |-> None, rc |-> rc]
SetCall(fd, t, rc) == [name |-> "tcsetattr", fd |-> fd, arg |-> t, rc |-> rc]

get_terminal_attr(fd, rc, dev) ==
    LET sys == tcgetattr(fd, Zeroed, rc, dev)
        r   == cvt(sys.rc)
    IN  [res   |-> IF r.ok THEN Ok(sys.termios) ELSE Err,
         calls |-> <<GetCall(fd, rc)>>]

set_terminal_attr(fd, termios, rc, dev) ==
    LET sys == tcsetattr(fd, termios, rc, dev)
        r   == cvt(sys.rc)
    IN  [res   |-> IF r.ok THEN Ok("unit") ELSE Err,
         dev   |-> sys.dev,
         calls |-> <<SetCall(fd, termios, rc)>>]

\* variant: the echo bit is flipped (^=) where it should be cleared (&= ~)
raw_terminal_attr_flips_echo(termios) ==
    LET t == cfmakeraw(termios)
    IN  [t EXCEPT !.c_lflag =
            IF "ECHO" \in termios.c_lflag THEN @ ELSE @ \cup {"ECHO"}]

raw_terminal_attr(termios) == cfmakeraw(termios)

----------------------------------------------------------------------------
(* src/lib.rs *)

\* the descriptor of writer h
as_raw_fd(h) == h + 2

RawTerminal(prev_ios, output) == [prev_ios |-> prev_ios, output |-> output]

\* variant: prev_ios is taken after ios was made raw
into_raw_mode_saves_raw(self, rcGet, rcSet, dev) ==
    LET q == get_terminal_attr(as_raw_fd(self), rcGet, dev)
    IN  IF ~q.res.ok
        THEN [res |-> Err, dev |-> dev, calls |-> q.calls]
        ELSE LET ios      == raw_terminal_attr(q.res.val)
                 prev_ios == ios
                 s        == set_terminal_attr(as_raw_fd(self), ios, rcSet, dev)
             IN  IF ~s.res.ok
                 THEN [res |-> Err, dev |-> s.dev, calls |-> q.calls \o s.calls]
                 ELSE [res   |-> Ok(RawTerminal(prev_ios, self)),
                       dev   |-> s.dev,
                       calls |-> q.calls \o s.calls]

\* variant: the result of the query is not checked (no `?`)
into_raw_mode_unchecked_query(self, rcGet, rcSet, dev) ==
    LET sys      == tcgetattr(as_raw_fd(self), Zeroed, rcGet, dev)
        prev_ios == sys.termios
        ios      == raw_terminal_attr(sys.termios)
        s        == set_terminal_attr(as_raw_fd(self), ios, rcSet, dev)
        calls    == <<GetCall(as_raw_fd(self), rcGet)>> \o s.calls
    IN  IF ~s.res.ok
        THEN [res |-> Err, dev |-> s.dev, calls |-> calls]
        ELSE [res   |-> Ok(RawTerminal(prev_ios, self)),
              dev   |-> s.dev,
              calls |-> calls]

\* variant: the result of the apply is not checked (no `?`)
into_raw_mode_unchecked_apply(self, rcGet, rcSet, dev) ==
    LET q == get_terminal_attr(as_raw_fd(self), rcGet, dev)
    IN  IF ~q.res.ok
        THEN [res |-> Err, dev |-> dev, calls |-> q.calls]
        ELSE LET prev_ios == q.res.val
                 ios      == raw_terminal_attr(q.res.val)
                 s        == set_terminal_attr(as_raw_fd(self), ios, rcSet, dev)
             IN  [res   |-> Ok(RawTerminal(prev_ios, self)),
                  dev   |-> s.dev,
                  calls |-> q.calls \o s.calls]

\* variant: the saved attributes are applied instead of the raw ones
into_raw_mode_applies_saved(self, rcGet, rcSet, dev) ==
    LET q == get_terminal_attr(as_raw_fd(self), rcGet, dev)
    IN  IF ~q.res.ok
        THEN [res |-> Err, dev |-> dev, calls |-> q.calls]
        ELSE LET prev_ios == q.res.val
                 s        == set_terminal_attr(as_raw_fd(self), prev_ios, rcSet, dev)
             IN  IF ~s.res.ok
                 THEN [res |-> Err, dev |-> s.dev, calls |-> q.calls \o s.calls]
                 ELSE [res   |-> Ok(RawTerminal(prev_ios, self)),
                       dev   |-> s.dev,
                       calls |-> q.calls \o s.calls]

\* IntoRawMode::into_raw_mode(self)
into_raw_mode(self, rcGet, rcSet, dev) ==
    LET q == get_terminal_attr(as_raw_fd(self), rcGet, dev)
    IN  IF ~q.res.ok
        THEN [res |-> Err, dev |-> dev, calls |-> q.calls]
        ELSE LET prev_ios == q.res.val
                 ios      == raw_terminal_attr(q.res.val)
                 s        == set_terminal_attr(as_raw_fd(self), ios, rcSet, dev)
             IN  IF ~s.res.ok
                 THEN [res |-> Err, dev |-> s.dev, calls |-> q.calls \o s.calls]
                 ELSE [res   |-> Ok(RawTerminal(prev_ios, self)),
                       dev   |-> s.dev,
                       calls |-> q.calls \o s.calls]

\* variant: the call is skipped when the device seems restored already
suspend_raw_mode_checks_first(self, rcSet, dev) ==
    LET q == get_terminal_attr(as_raw_fd(self.output), rcSet, dev)
    IN  IF ~q.res.ok
        THEN [res |-> Err, self |-> self, dev |-> dev, calls |-> q.calls]
        ELSE IF q.res.val = self.prev_ios
        THEN [res |-> Ok("unit"), self |-> self, dev |-> dev, calls |-> q.calls]
        ELSE LET s == set_terminal_attr(as_raw_fd(self.output), self.prev_ios,
                                        rcSet, dev)
             IN  [res |-> s.res, self |-> self, dev |-> s.dev,
                  calls |-> q.calls \o s.calls]

\* variant: suspend swaps the saved and the live attributes
suspend_raw_mode_swaps(self, rcSet, dev) ==
    LET s == set_terminal_attr(as_raw_fd(self.output), self.prev_ios, rcSet, dev)
    IN  IF ~s.res.ok
        THEN [res |-> Err, self |-> self, dev |-> s.dev, calls |-> s.calls]
        ELSE [res |-> Ok("unit"), self |-> [self EXCEPT !.prev_ios = dev],
              dev |-> s.dev, calls |-> s.calls]

\* variant: suspend discards the result of the call, as drop does
suspend_raw_mode_swallows(self, rcSet, dev) ==
    LET s == set_terminal_attr(as_raw_fd(self.output), self.prev_ios, rcSet, dev)
    IN  [res |-> Ok("unit"), self |-> self, dev |-> s.dev, calls |-> s.calls]

\* RawTerminal::suspend_raw_mode(&self)
suspend_raw_mode(self, rcSet, dev) ==
    LET s == set_terminal_attr(as_raw_fd(self.output), self.prev_ios, rcSet, dev)
    IN  IF ~s.res.ok
        THEN [res |-> Err, self |-> self, dev |-> s.dev, calls |-> s.calls]
        ELSE [res |-> Ok("unit"), self |-> self, dev |-> s.dev, calls |-> s.calls]

\* variant: activate keeps the queried attributes as the saved ones
activate_raw_mode_resaves(self, rcGet, rcSet, dev) ==
    LET q == get_terminal_attr(as_raw_fd(self.output), rcGet, dev)
    IN  IF ~q.res.ok
        THEN [res |-> Err, self |-> self, dev |-> dev, calls |-> q.calls]
        ELSE LET ios == raw_terminal_attr(q.res.val)
                 s   == set_terminal_attr(as_raw_fd(self.output), ios, rcSet, dev)
             IN  IF ~s.res.ok
                 THEN [res |-> Err, self |-> self, dev |-> s.dev,
                       calls |-> q.calls \o s.calls]
                 ELSE [res |-> Ok("unit"),
                       self |-> [self EXCEPT !.prev_ios = q.res.val],
                       dev |-> s.dev, calls |-> q.calls \o s.calls]

\* variant: activate derives the raw attributes from the saved ones
activate_raw_mode_from_saved(self, rcGet, rcSet, dev) ==
    LET q == get_terminal_attr(as_raw_fd(self.output), rcGet, dev)
    IN  IF ~q.res.ok
        THEN [res |-> Err, self |-> self, dev |-> dev, calls |-> q.calls]
        ELSE LET ios == raw_terminal_attr(self.prev_ios)
                 s   == set_terminal_attr(as_raw_fd(self.output), ios, rcSet, dev)
             IN  IF ~s.res.ok
                 THEN [res |-> Err, self |-> self, dev |-> s.dev,
                       calls |-> q.calls \o s.calls]
                 ELSE [res |-> Ok("unit"), self |-> self, dev |-> s.dev,
                       calls |-> q.calls \o s.calls]

\* variant: activate tries the apply a second time when it fails
activate_raw_mode_retries(self, rcGet, rcSet, dev) ==
    LET q == get_terminal_attr(as_raw_fd(self.output), rcGet, dev)
    IN  IF ~q.res.ok
        THEN [res |-> Err, self |-> self, dev |-> dev, calls |-> q.calls]
        ELSE LET ios == raw_terminal_attr(q.res.val)
                 s   == set_terminal_attr(as_raw_fd(self.output), ios, rcSet, dev)
                 t   == set_terminal_attr(as_raw_fd(self.output), ios, rcSet, s.dev)
             IN  IF ~s.res.ok
                 THEN [res |-> t.res, self |-> self, dev |-> t.dev,
                       calls |-> q.calls \o s.calls \o t.calls]
                 ELSE [res |-> Ok("unit"), self |-> self, dev |-> s.dev,
                       calls |-> q.calls \o s.calls]

\* RawTerminal::activate_raw_mode(&self)
activate_raw_mode(self, rcGet, rcSet, dev) ==
    LET q == get_terminal_attr(as_raw_fd(self.output), rcGet, dev)
    IN  IF ~q.res.ok
        THEN [res |-> Err, self |-> self, dev |-> dev, calls |-> q.calls]
        ELSE LET ios == raw_terminal_attr(q.res.val)
                 s   == set_terminal_attr(as_raw_fd(self.output), ios, rcSet, dev)
             IN  IF ~s.res.ok
                 THEN [res |-> Err, self |-> self, dev |-> s.dev,
                       calls |-> q.calls \o s.calls]
                 ELSE [res |-> Ok("unit"), self |-> self, dev |-> s.dev,
                       calls |-> q.calls \o s.calls]

\* variant: drop re-applies the raw attributes instead of the saved ones
drop_keeps_raw(self, rcSet, dev) ==
    LET s == set_terminal_attr(as_raw_fd(self.output),
                               raw_terminal_attr(self.prev_ios), rcSet, dev)
    IN  [res |-> "unit", dev |-> s.dev, calls |-> s.calls]

\* variant: drop tries the restoration a second time when it fails
drop_retries(self, rcSet, dev) ==
    LET s == set_terminal_attr(as_raw_fd(self.output), self.prev_ios, rcSet, dev)
        t == set_terminal_attr(as_raw_fd(self.output), self.prev_ios, rcSet, s.dev)
    IN  IF s.res.ok
        THEN [res |-> "unit", dev |-> s.dev, calls |-> s.calls]
        ELSE [res |-> "unit", dev |-> t.dev, calls |-> s.calls \o t.calls]

\* variant: drop unwraps the result of the restoration
drop_unwraps(self, rcSet, dev) ==
    LET s == set_terminal_attr(as_raw_fd(self.output), self.prev_ios, rcSet, dev)
    IN  [res |-> IF s.res.ok THEN "unit" ELSE "panic", dev |-> s.dev,
         calls |-> s.calls]

\* <RawTerminal as Drop>::drop(&mut self): the result of the call is discarded
drop(self, rcSet, dev) ==
    LET s == set_terminal_attr(as_raw_fd(self.output), self.prev_ios, rcSet, dev)
    IN  [res |-> "unit", dev |-> s.dev, calls |-> s.calls]

\* The two halves of into_raw_mode and of activate_raw_mode, for threads
\* that interleave at the system calls: the query, which leaves the local
\* `ios` made raw, and the apply.

\* into_raw_mode up to raw_terminal_attr(&mut ios)
into_query(self, rcGet, dev) ==
    LET q == get_terminal_attr(as_raw_fd(self), rcGet, dev)
    IN  IF ~q.res.ok
        THEN [res |-> Err, calls |-> q.calls]
        ELSE [res |-> Ok([prev_ios |-> q.res.val,
                          ios |-> raw_terminal_attr(q.res.val)]),
              calls |-> q.calls]

\* into_raw_mode from set_terminal_attr on
into_apply(self, prev_ios, ios, rcSet, dev) ==
    LET s == set_terminal_attr(as_raw_fd(self), ios, rcSet, dev)
    IN  IF ~s.res.ok
        THEN [res |-> Err, dev |-> s.dev, calls |-> s.calls]
        ELSE [res |-> Ok(RawTerminal(prev_ios, self)), dev |-> s.dev,
              calls |-> s.calls]

\* activate_raw_mode up to raw_terminal_attr(&mut ios)
activate_query(self, rcGet, dev) ==
    LET q == get_terminal_attr(as_raw_fd(self.output), rcGet, dev)
    IN  IF ~q.res.ok
        THEN [res |-> Err, calls |-> q.calls]
        ELSE [res |-> Ok([snap |-> q.res.val,
                          ios |-> raw_terminal_attr(q.res.val)]),
              calls |-> q.calls]

\* variant: the apply is given up, as a success, when the device no longer
\* has the attributes the query returned
activate_apply_checked(self, q, rcSet, dev) ==
    LET s == set_terminal_attr(as_raw_fd(self.output), q.ios, rcSet, dev)
    IN  IF dev # q.snap
        THEN [res |-> Ok("unit"), dev |-> dev, calls |-> <<>>]
        ELSE [res |-> s.res, dev |-> s.dev, calls |-> s.calls]

\* activate_raw_mode from set_terminal_attr on; q holds the locals the
\* first half left: the attributes queried and `ios`, their raw variant
activate_apply(self, q, rcSet, dev) ==
    LET s == set_terminal_attr(as_raw_fd(self.output), q.ios, rcSet, dev)
    IN  [res |-> s.res, dev |-> s.dev, calls |-> s.calls]

\* the wrapped writer W: write takes the first n bytes of buf and returns
\* Ok(n), or takes none and returns an error (out = -1), as the environment
\* decides; flush returns Ok(()) or an error
W_write(buf, out, sinkh) ==
    [res   |-> IF out = -1 THEN Err ELSE Ok(out),
     sink  |-> IF out = -1 THEN sinkh ELSE sinkh \o SubSeq(buf, 1, out),
     inner |-> <<[name |-> "write", buf |-> buf]>>]

W_flush(out, sinkh) ==
    [res   |-> IF out = -1 THEN Err ELSE Ok("unit"),
     sink  |-> sinkh,
     inner |-> <<[name |-> "flush", buf |-> <<>>]>>]

\* variant: a short write is followed by a second write of the rest
write_retries_short(self, buf, out, sinkh, dev) ==
    LET w == W_write(buf, out, sinkh)
    IN  IF w.res.ok /\ w.res.val < Len(buf)
        THEN LET rest == SubSeq(buf, w.res.val + 1, Len(buf))
                 v    == W_write(rest, Len(rest), w.sink)
             IN  [res |-> Ok(Len(buf)), sink |-> v.sink,
                  inner |-> w.inner \o v.inner,
                  self |-> self, dev |-> dev, calls |-> <<>>]
        ELSE [res |-> w.res, sink |-> w.sink, inner |-> w.inner,
              self |-> self, dev |-> dev, calls |-> <<>>]

\* <RawTerminal as Write>::write(&mut self, buf)
write(self, buf, out, sinkh, dev) ==
    LET w == W_write(buf, out, sinkh)
    IN  [res |-> w.res, sink |-> w.sink, inner |-> w.inner,
         self |-> self, dev |-> dev, calls |-> <<>>]

\* variant: flush puts the terminal back into raw mode
flush_applies_raw(self, out, sinkh, dev) ==
    LET w == W_flush(out, sinkh)
        s == set_terminal_attr(as_raw_fd(self.output),
                               raw_terminal_attr(self.prev_ios), 0, dev)
    IN  [res |-> w.res, sink |-> w.sink, inner |-> w.inner,
         self |-> self, dev |-> s.dev, calls |-> s.calls]

\* <RawTerminal as Write>::flush(&mut self)
flush(self, out, sinkh, dev) ==
    LET w == W_flush(out, sinkh)
    IN  [res |-> w.res, sink |-> w.sink, inner |-> w.inner,
         self |-> self, dev |-> dev, calls |-> <<>>]

----------------------------------------------------------------------------
(* The state machine *)

\* the tcsetattr calls among cs
SetCalls(cs) == SelectSeq(cs, LAMBDA c : c.name = "tcsetattr")
GetCalls(cs) == SelectSeq(cs, LAMBDA c : c.name = "tcgetattr")

\* the operation wrote the device's settings
Wrote(cs) == \E i \in 1..Len(cs) : cs[i].name = "tcsetattr" /\ cs[i].rc = 0

\* guards other than h lose `clean` when the device is written
Disturb(h, wrote) ==
    [k \in Handles |-> IF k # h /\ wrote THEN FALSE ELSE clean[k]]

\* the writer of the device has it to itself until another party writes
Quiet(h, wrote) ==
    [k \in Handles |-> IF wrote THEN k = h ELSE quiet[k]]

\* the previous operation was a successful `op` on guard h
Repeats(op, h) == last.op = op /\ last.h = h /\ last.ok

\* what the caller gets back from an operation
Ret(res) == IF res.ok THEN "Ok" ELSE "Err"

Record(op, h, ok, ret, calls, rep) ==
    [op |-> op, h |-> h, ok |-> ok, ret |-> ret, calls |-> calls,
     pre |-> [live |-> live, guard |-> IF h \in Handles THEN guard[h] ELSE None,
              phase |-> IF h \in Handles THEN phase[h] ELSE "NONE",
              quiet |-> IF h \in Handles THEN quiet[h] ELSE FALSE,
              loc |-> IF h \in Handles THEN loc[h] ELSE None],
     rep |-> rep]

\* the situation of the device when into_raw_mode is called on writer h
Over(h) ==
    IF \A k \in Handles \ {h} : guard[k] = None THEN "none"
    ELSE IF \E k \in Handles \ {h} :
                guard[k] # None /\ phase[k] = "RAW" /\ clean[k] THEN "raw"
    ELSE "other"

Init ==
    /\ live \in Terminals
    /\ handle = [h \in Handles |-> "caller"]
    /\ guard = [h \in Handles |-> None]
    /\ phase = [h \in Handles |-> "UNINITIALIZED"]
    /\ captured = [h \in Handles |-> None]
    /\ clean = [h \in Handles |-> FALSE]
    /\ quiet = [h \in Handles |-> FALSE]
    /\ restores = [h \in Handles |-> 0]
    /\ failed = [h \in Handles |-> FALSE]
    /\ over = [h \in Handles |-> "none"]
    /\ last = [op |-> "init", h |-> 0, ok |-> TRUE, ret |-> "none", calls |-> <<>>,
               pre |-> [live |-> live, guard |-> None, phase |-> "NONE",
                        quiet |-> FALSE, loc |-> None],
               rep |-> FALSE]
    /\ sink = [h \in Handles |-> <<>>]
    /\ sent = [h \in Handles |-> <<>>]
    /\ wlast = [buf |-> <<>>, out |-> 0, res |-> Ok("unit"), inner |-> <<>>,
                pre |-> <<>>]
    /\ pc = [h \in Handles |-> "idle"]
    /\ loc = [h \in Handles |-> None]

\* the caller turns writer h into a guard
IntoRawMode(h) ==
    /\ handle[h] = "caller"
    /\ pc[h] = "idle"
    /\ \E rcGet \in RetCodes, rcSet \in RetCodes :
         LET r == into_raw_mode(h, rcGet, rcSet, live)
         IN  /\ live' = r.dev
             /\ handle' = [handle EXCEPT ![h] = IF r.res.ok THEN "guard" ELSE "dropped"]
             /\ guard' = [guard EXCEPT ![h] = IF r.res.ok THEN r.res.val ELSE None]
             /\ phase' = [phase EXCEPT ![h] = IF r.res.ok THEN "RAW" ELSE "UNINITIALIZED"]
             /\ captured' = [captured EXCEPT ![h] = IF r.res.ok THEN live ELSE None]
             /\ clean' = [Disturb(h, Wrote(r.calls)) EXCEPT ![h] = r.res.ok]
             /\ quiet' = Quiet(h, Wrote(r.calls))
             /\ last' = Record("into_raw_mode", h, r.res.ok, Ret(r.res), r.calls, FALSE)
             /\ over' = [over EXCEPT ![h] = IF r.res.ok THEN Over(h) ELSE @]
             /\ UNCHANGED <<restores, failed, ioVars, raceVars>>

\* guard[h].suspend_raw_mode()
Suspend(h) ==
    /\ guard[h] # None
    /\ pc[h] = "idle"
    /\ \E rcSet \in RetCodes :
         LET r == suspend_raw_mode(guard[h], rcSet, live)
         IN  /\ live' = r.dev
             /\ guard' = [guard EXCEPT ![h] = r.self]
             /\ phase' = [phase EXCEPT ![h] = IF r.res.ok THEN "SUSPENDED" ELSE @]
             /\ clean' = Disturb(h, Wrote(r.calls))
             /\ quiet' = [Quiet(h, Wrote(r.calls)) EXCEPT ![h] = @ /\ guard'[h] # None]
             /\ last' = Record("suspend_raw_mode", h, r.res.ok, Ret(r.res), r.calls,
                               Repeats("suspend_raw_mode", h))
             /\ failed' = [failed EXCEPT ![h] = @ \/ ~r.res.ok]
             /\ UNCHANGED <<handle, captured, restores, over, ioVars, raceVars>>

\* guard[h].activate_raw_mode()
Activate(h) ==
    /\ guard[h] # None
    /\ pc[h] = "idle"
    /\ \E rcGet \in RetCodes, rcSet \in RetCodes :
         LET r == activate_raw_mode(guard[h], rcGet, rcSet, live)
         IN  /\ live' = r.dev
             /\ guard' = [guard EXCEPT ![h] = r.self]
             /\ phase' = [phase EXCEPT ![h] = IF r.res.ok THEN "RAW" ELSE @]
             /\ clean' = Disturb(h, Wrote(r.calls))
             /\ quiet' = [Quiet(h, Wrote(r.calls)) EXCEPT ![h] = @ /\ guard'[h] # None]
             /\ last' = Record("activate_raw_mode", h, r.res.ok, Ret(r.res), r.calls,
                               Repeats("activate_raw_mode", h))
             /\ failed' = [failed EXCEPT ![h] = @ \/ ~r.res.ok]
             /\ UNCHANGED <<handle, captured, restores, over, ioVars, raceVars>>

\* guard[h] goes out of scope: drop runs, then the fields are dropped
Drop(h) ==
    /\ guard[h] # None
    /\ pc[h] = "idle"
    /\ \E rcSet \in RetCodes :
         LET r == drop(guard[h], rcSet, live)
         IN  /\ live' = r.dev
             /\ guard' = [guard EXCEPT ![h] = None]
             /\ handle' = [handle EXCEPT ![h] = "dropped"]
             /\ phase' = [phase EXCEPT ![h] = "RESTORED"]
             /\ clean' = Disturb(h, Wrote(r.calls))
             /\ quiet' = [Quiet(h, Wrote(r.calls)) EXCEPT ![h] = @ /\ guard'[h] # None]
             /\ restores' = [restores EXCEPT ![h] = @ + Len(SetCalls(r.calls))]
             /\ last' = Record("drop", h, Wrote(r.calls), r.res, r.calls, FALSE)
             /\ UNCHANGED <<captured, failed, over, ioVars, raceVars>>

\* another process sets the device's attributes
OtherParty ==
    /\ \E t \in Terminals :
         /\ t # live
         /\ live' = t
         /\ clean' = [k \in Handles |-> FALSE]
         /\ quiet' = [k \in Handles |-> FALSE]
         /\ last' = Record("other", 0, TRUE, "none", <<>>, FALSE)
    /\ UNCHANGED <<handle, guard, phase, captured, restores, failed, over,
                   ioVars, raceVars>>

\* guard[h].write(buf)
Write(h) ==
    /\ guard[h] # None
    /\ pc[h] = "idle"
    /\ \E buf \in Bufs, out \in -1..MaxBuf :
         /\ out <= Len(buf)
         /\ Len(sink[h]) + Len(buf) <= MaxSink
         /\ LET r == write(guard[h], buf, out, sink[h], live)
                n == IF r.res.ok THEN r.res.val ELSE 0
            IN  /\ live' = r.dev
                /\ guard' = [guard EXCEPT ![h] = r.self]
                /\ sink' = [sink EXCEPT ![h] = r.sink]
                /\ sent' = [sent EXCEPT ![h] = @ \o SubSeq(buf, 1, n)]
                /\ wlast' = [buf |-> buf, out |-> out, res |-> r.res,
                             inner |-> r.inner, pre |-> sink[h]]
                /\ clean' = Disturb(h, Wrote(r.calls))
                /\ quiet' = Quiet(h, Wrote(r.calls))
                /\ last' = Record("write", h, r.res.ok, Ret(r.res), r.calls, FALSE)
    /\ UNCHANGED <<handle, phase, captured, restores, failed, over, raceVars>>

\* guard[h].flush()
Flush(h) ==
    /\ guard[h] # None
    /\ pc[h] = "idle"
    /\ \E out \in RetCodes :
         LET r == flush(guard[h], out, sink[h], live)
         IN  /\ live' = r.dev
             /\ guard' = [guard EXCEPT ![h] = r.self]
             /\ sink' = [sink EXCEPT ![h] = r.sink]
             /\ wlast' = [buf |-> <<>>, out |-> out, res |-> r.res,
                          inner |-> r.inner, pre |-> sink[h]]
             /\ clean' = Disturb(h, Wrote(r.calls))
             /\ quiet' = Quiet(h, Wrote(r.calls))
             /\ last' = Record("flush", h, r.res.ok, Ret(r.res), r.calls, FALSE)
    /\ UNCHANGED <<handle, phase, captured, restores, failed, over, sent,
                   raceVars>>

Next ==
    \/ \E h \in Handles : IntoRawMode(h)
    \/ \E h \in Handles : Suspend(h)
    \/ \E h \in Handles : Activate(h)
    \/ \E h \in Handles : Drop(h)
    \/ OtherParty

Spec == Init /\ [][Next]_vars

\* the thread of writer h starts into_raw_mode: the query
EnterQuery(h) ==
    /\ handle[h] = "caller"
    /\ pc[h] = "idle"
    /\ \E rcGet \in RetCodes :
         LET r == into_query(h, rcGet, live)
         IN  /\ handle' = [handle EXCEPT ![h] = IF r.res.ok THEN @ ELSE "dropped"]
             /\ pc' = [pc EXCEPT ![h] = IF r.res.ok THEN "into_apply" ELSE "idle"]
             /\ loc' = [loc EXCEPT ![h] = IF r.res.ok THEN r.res.val ELSE None]
             /\ last' = Record("into_query", h, r.res.ok, Ret(r.res), r.calls, FALSE)
    /\ UNCHANGED <<live, guard, phase, captured, clean, quiet, restores,
                   failed, over, ioVars>>

\* the thread of writer h finishes into_raw_mode: the apply
EnterApply(h) ==
    /\ pc[h] = "into_apply"
    /\ \E rcSet \in RetCodes :
         LET r == into_apply(h, loc[h].prev_ios, loc[h].ios, rcSet, live)
         IN  /\ live' = r.dev
             /\ handle' = [handle EXCEPT ![h] = IF r.res.ok THEN "guard" ELSE "dropped"]
             /\ guard' = [guard EXCEPT ![h] = IF r.res.ok THEN r.res.val ELSE None]
             /\ phase' = [phase EXCEPT ![h] = IF r.res.ok THEN "RAW" ELSE "UNINITIALIZED"]
             /\ captured' = [captured EXCEPT ![h] =
                                IF r.res.ok THEN loc[h].prev_ios ELSE None]
             /\ clean' = [Disturb(h, Wrote(r.calls)) EXCEPT ![h] = r.res.ok]
             /\ quiet' = Quiet(h, Wrote(r.calls))
             /\ over' = [over EXCEPT ![h] = IF r.res.ok THEN Over(h) ELSE @]
             /\ pc' = [pc EXCEPT ![h] = "idle"]
             /\ loc' = [loc EXCEPT ![h] = None]
             /\ last' = Record("into_apply", h, r.res.ok, Ret(r.res), r.calls, FALSE)
    /\ UNCHANGED <<restores, failed, ioVars>>

\* the thread of writer h starts guard[h].activate_raw_mode(): the query
ActivateQuery(h) ==
    /\ guard[h] # None
    /\ pc[h] = "idle"
    /\ \E rcGet \in RetCodes :
         LET r == activate_query(guard[h], rcGet, live)
         IN  /\ pc' = [pc EXCEPT ![h] = IF r.res.ok THEN "activate_apply" ELSE "idle"]
             /\ loc' = [loc EXCEPT ![h] = IF r.res.ok THEN r.res.val ELSE None]
             /\ failed' = [failed EXCEPT ![h] = @ \/ ~r.res.ok]
             /\ last' = Record("activate_query", h, r.res.ok, Ret(r.res), r.calls,
                               FALSE)
    /\ UNCHANGED <<live, handle, guard, phase, captured, clean, quiet, restores,
                   over, ioVars>>

\* the thread of writer h finishes guard[h].activate_raw_mode(): the apply
ActivateApply(h) ==
    /\ pc[h] = "activate_apply"
    /\ \E rcSet \in RetCodes :
         LET r == activate_apply(guard[h], loc[h], rcSet, live)
         IN  /\ live' = r.dev
             /\ phase' = [phase EXCEPT ![h] = IF r.res.ok THEN "RAW" ELSE @]
             /\ clean' = Disturb(h, Wrote(r.calls))
             /\ quiet' = Quiet(h, Wrote(r.calls))
             /\ failed' = [failed EXCEPT ![h] = @ \/ ~r.res.ok]
             /\ pc' = [pc EXCEPT ![h] = "idle"]
             /\ loc' = [loc EXCEPT ![h] = None]
             /\ last' = Record("activate_apply", h, r.res.ok, Ret(r.res), r.calls,
                               FALSE)
    /\ UNCHANGED <<handle, guard, captured, restores, over, ioVars>>

\* two threads, one per writer, that have the one device to themselves; a
\* step is one system call (suspend and drop make a single call)
NextRace ==
    \/ \E h \in Handles : EnterQuery(h)
    \/ \E h \in Handles : EnterApply(h)
    \/ \E h \in Handles : ActivateQuery(h)
    \/ \E h \in Handles : ActivateApply(h)
    \/ \E h \in Handles : Suspend(h)
    \/ \E h \in Handles : Drop(h)

SpecRace == Init /\ [][NextRace]_vars

\* one writer that has the device to itself, its guard, and the writes and
\* flushes made through the guard
IOHandles == {1}

NextIO ==
    \/ \E h \in IOHandles : IntoRawMode(h)
    \/ \E h \in IOHandles : Suspend(h)
    \/ \E h \in IOHandles : Activate(h)
    \/ \E h \in IOHandles : Drop(h)
    \/ \E h \in IOHandles : Write(h)
    \/ \E h \in IOHandles : Flush(h)

SpecIO == Init /\ [][NextIO]_vars

----------------------------------------------------------------------------
(* Properties *)

\* the last operation was `op` on writer h
Did(op, h) == last.op = op /\ last.h = h

\* writer h was consumed by a failed into_raw_mode: it never had a guard
Aborted(h) == handle[h] = "dropped" /\ phase[h] = "UNINITIALIZED"

\* C1: round trip.  When the guard of h is destroyed and the tcsetattr of the
\* destruction succeeds, and no other party wrote the device's attributes
\* since into_raw_mode was called, the live attributes are the ones the
\* device had when into_raw_mode was called, whatever suspend / activate
\* calls came between and whichever state the guard was destroyed in.
RoundTrip ==
    \A h \in Handles :
        (Did("drop", h) /\ last.ok /\ clean[h]) => live = captured[h]

\* a guard destroyed in RAW state, the destruction changing the attributes
RoundTripWitness ==
    \E h \in Handles :
        /\ Did("drop", h) /\ last.ok /\ clean[h]
        /\ last.pre.phase = "RAW"
        /\ last.pre.live # live
        /\ live = captured[h]

\* C2: exactly-once restore.  The destruction of a guard makes exactly one
\* tcsetattr(descriptor, saved) call, whether it succeeds or not; a guard
\* that is still alive has made none; and once the guard is destroyed no
\* operation of it makes any further call.
ExactlyOnceRestore ==
    \A h \in Handles :
        /\ Did("drop", h) =>
              /\ Len(last.calls) = 1
              /\ last.calls[1].name = "tcsetattr"
              /\ last.calls[1].fd = as_raw_fd(h)
              /\ last.calls[1].arg = last.pre.guard.prev_ios
        /\ phase[h] = "RESTORED" => restores[h] = 1 /\ guard[h] = None
        /\ phase[h] # "RESTORED" => restores[h] = 0
        /\ (phase[h] = "RESTORED" /\ last.h = h) => last.op = "drop"

\* a guard destroyed after a suspend, the restoring call failing
ExactlyOnceRestoreWitness ==
    \E h \in Handles :
        /\ Did("drop", h) /\ ~last.ok
        /\ last.pre.phase = "SUSPENDED"
        /\ restores[h] = 1

\* C3: when tcgetattr fails in into_raw_mode, the call returns an error, no
\* guard is created, tcsetattr is not called, the live attributes are
\* unchanged, and no restoration is ever made for the writer.
EntryQueryFailure ==
    \A h \in Handles :
        /\ (Did("into_raw_mode", h) /\ last.calls[1].rc = -1) =>
              /\ ~last.ok
              /\ guard[h] = None
              /\ handle[h] = "dropped"
              /\ SetCalls(last.calls) = <<>>
              /\ Len(last.calls) = 1
              /\ live = last.pre.live
        /\ Aborted(h) => restores[h] = 0 /\ guard[h] = None

\* a failed query on one writer while another guard holds the device raw
EntryQueryFailureWitness ==
    \E h \in Handles, k \in Handles :
        /\ Did("into_raw_mode", h) /\ last.calls[1].rc = -1
        /\ Aborted(h)
        /\ k # h /\ phase[k] = "RAW"

\* C4: when in into_raw_mode the query succeeds and tcsetattr fails, the call
\* returns an error, no guard exists, the live attributes equal the queried
\* value, only the one (failed) tcsetattr was made and no restoration is
\* ever made for the writer.
EntryApplyFailure ==
    \A h \in Handles :
        (/\ Did("into_raw_mode", h)
         /\ Len(last.calls) >= 2
         /\ last.calls[1].rc = 0
         /\ last.calls[2].rc = -1) =>
              /\ ~last.ok
              /\ guard[h] = None
              /\ handle[h] = "dropped"
              /\ Aborted(h)
              /\ live = last.pre.live
              /\ Len(SetCalls(last.calls)) = 1
              /\ Len(last.calls) = 2
              /\ restores[h] = 0

\* the apply fails on a device that raw mode would have changed
EntryApplyFailureWitness ==
    \E h \in Handles :
        /\ Did("into_raw_mode", h)
        /\ Len(last.calls) = 2
        /\ last.calls[1].rc = 0
        /\ last.calls[2].rc = -1
        /\ last.calls[2].arg # live

\* C5: when into_raw_mode succeeds on a device whose attributes are A, the
\* live attributes afterwards are the raw variant of A, the guard's saved
\* attributes are A (not the raw variant) and the guard owns the writer.
EntrySuccess ==
    \A h \in Handles :
        (Did("into_raw_mode", h) /\ last.ok) =>
              /\ live = cfmakeraw(last.pre.live)
              /\ guard[h] # None
              /\ guard[h].prev_ios = last.pre.live
              /\ guard[h].output = h
              /\ handle[h] = "guard"
              /\ phase[h] = "RAW"

\* a successful entry that changed the attributes
EntrySuccessWitness ==
    \E h \in Handles :
        /\ Did("into_raw_mode", h) /\ last.ok
        /\ live # last.pre.live
        /\ guard[h].prev_ios # live

SuspendApplies ==
    \A h \in Handles :
        (Did("suspend_raw_mode", h) /\ last.ok) =>
              /\ live = captured[h]
              /\ GetCalls(last.calls) = <<>>
              /\ last.calls = <<SetCall(as_raw_fd(h), captured[h], 0)>>
              /\ guard[h] # None
              /\ guard[h] = last.pre.guard
              /\ handle[h] = "guard"
              /\ phase[h] = "SUSPENDED"

\* a suspend from attributes another party had set
SuspendAppliesWitness ==
    \E h \in Handles :
        /\ Did("suspend_raw_mode", h) /\ last.ok
        /\ last.pre.live # captured[h]
        /\ last.pre.live # cfmakeraw(captured[h])
        /\ live = captured[h]

\* C8: a successful activate_raw_mode sets the live attributes to the raw
\* variant of the attributes the device had at the call, not of the saved
\* ones, and leaves the guard as it was; after a suspend that no other party
\* followed, that is the raw variant of the saved attributes, the state
\* right after entry; and a destruction whose tcsetattr succeeds restores
\* the saved attributes even after another party changed the device.
ActivateRederives ==
    \A h \in Handles :
        /\ (Did("activate_raw_mode", h) /\ last.ok) =>
              /\ live = cfmakeraw(last.pre.live)
              /\ last.calls = <<GetCall(as_raw_fd(h), 0),
                                SetCall(as_raw_fd(h), cfmakeraw(last.pre.live), 0)>>
              /\ guard[h] = last.pre.guard
              /\ phase[h] = "RAW"
              /\ (last.pre.phase = "SUSPENDED" /\ last.pre.quiet) =>
                     live = cfmakeraw(captured[h])
        /\ (Did("drop", h) /\ last.ok /\ ~clean[h]) => live = captured[h]

\* an activate from attributes B that another party set during suspension,
\* the raw variant of B differing from the raw variant of the saved ones
ActivateRederivesWitness ==
    \E h \in Handles :
        /\ Did("activate_raw_mode", h) /\ last.ok
        /\ last.pre.phase = "SUSPENDED"
        /\ ~last.pre.quiet
        /\ last.pre.live # captured[h]
        /\ live # cfmakeraw(captured[h])
        /\ live # last.pre.live

\* C9: a successful suspend_raw_mode that directly follows a successful
\* suspend_raw_mode of the same guard leaves the live attributes, the
\* guard (its saved attributes) and its state as the first one left them.
SuspendIdempotent ==
    \A h \in Handles :
        (Did("suspend_raw_mode", h) /\ last.ok /\ last.rep) =>
              /\ live = last.pre.live
              /\ guard[h] = last.pre.guard
              /\ phase[h] = last.pre.phase

\* two suspends in a row, on a guard whose saved attributes are not raw
SuspendIdempotentWitness ==
    \E h \in Handles :
        /\ Did("suspend_raw_mode", h) /\ last.ok /\ last.rep
        /\ live # cfmakeraw(live)

\* C10: a successful activate_raw_mode that directly follows a successful
\* activate_raw_mode of the same guard leaves the live attributes as the
\* first one left them: the raw variant of a raw variant is that raw
\* variant.  An activate in RAW state, no other party having written the
\* device since the guard made it raw, leaves the live attributes unchanged.
ActivateIdempotent ==
    \A h \in Handles :
        /\ (Did("activate_raw_mode", h) /\ last.ok /\ last.rep) =>
              /\ live = last.pre.live
              /\ guard[h] = last.pre.guard
              /\ phase[h] = last.pre.phase
        /\ (Did("activate_raw_mode", h) /\ last.ok) =>
              raw_terminal_attr(live) = live
        /\ (/\ Did("activate_raw_mode", h) /\ last.ok
            /\ last.pre.phase = "RAW" /\ last.pre.quiet) =>
              live = last.pre.live

\* two activates in a row, the first one having changed the attributes
ActivateIdempotentWitness ==
    \E h \in Handles :
        /\ Did("activate_raw_mode", h) /\ last.ok /\ last.rep
        /\ last.pre.phase = "RAW"
        /\ live # captured[h]

\* C11: when the tcsetattr made by the destruction of a guard fails, the
\* destruction still completes (the guard and its writer are gone, state
\* RESTORED), drop returns nothing to the caller, the live attributes are
\* what they were before the attempt, and the call is not repeated.
DropSwallowsFailure ==
    \A h \in Handles :
        (Did("drop", h) /\ last.calls[1].rc = -1) =>
              /\ last.ret = "unit"
              /\ live = last.pre.live
              /\ guard[h] = None
              /\ handle[h] = "dropped"
              /\ phase[h] = "RESTORED"
              /\ Len(last.calls) = 1
              /\ restores[h] = 1

\* a failed restoration that leaves the device raw
DropSwallowsFailureWitness ==
    \E h \in Handles :
        /\ Did("drop", h) /\ last.calls[1].rc = -1
        /\ last.pre.phase = "RAW"
        /\ live = cfmakeraw(captured[h])
        /\ live # captured[h]

\* C12: when the tcsetattr of suspend_raw_mode fails, or the tcgetattr or
\* the tcsetattr of activate_raw_mode fails, the call returns an error, the
\* live and the saved attributes are unchanged (activate makes no tcsetattr
\* call when its query fails), the guard stays alive in the state it had,
\* and a later destruction of a guard that saw such an error still makes
\* its one restoration call.
ModeErrorPropagates ==
    \A h \in Handles :
        /\ (Did("suspend_raw_mode", h) /\ last.calls[1].rc = -1) =>
              /\ last.ret = "Err" /\ ~last.ok
              /\ Len(last.calls) = 1
        /\ (Did("activate_raw_mode", h) /\ last.calls[1].rc = -1) =>
              /\ last.ret = "Err" /\ ~last.ok
              /\ SetCalls(last.calls) = <<>>
        /\ (/\ Did("activate_raw_mode", h) /\ Len(last.calls) >= 2
            /\ last.calls[2].rc = -1) =>
              /\ last.ret = "Err" /\ ~last.ok
        /\ (/\ Did("suspend_raw_mode", h) \/ Did("activate_raw_mode", h)
            /\ last.ret = "Err") =>
              /\ \E i \in 1..Len(last.calls) : last.calls[i].rc = -1
              /\ live = last.pre.live
              /\ guard[h] # None
              /\ guard[h] = last.pre.guard
              /\ guard[h].prev_ios = captured[h]
              /\ handle[h] = "guard"
              /\ phase[h] = last.pre.phase
              /\ failed[h]
        /\ (failed[h] /\ guard[h] # None) => restores[h] = 0
        /\ (failed[h] /\ Did("drop", h)) =>
              /\ restores[h] = 1
              /\ last.calls = <<SetCall(as_raw_fd(h), captured[h], last.calls[1].rc)>>
              /\ last.ok => live = captured[h]

\* a guard whose activate failed at the apply is destroyed, restoring the
\* saved attributes
ModeErrorPropagatesWitness ==
    \E h \in Handles :
        /\ failed[h] /\ Did("drop", h) /\ last.ok
        /\ last.pre.live # live

\* C15: while the guard of h exists and no other party has written the
\* device since it was created over attributes A, the live attributes are
\* the raw variant of A in state RAW (the last successful mode operation
\* was the entry or an activate) and A in state SUSPENDED (it was a
\* suspend); so they are always one of the two.
LiveAttributeInvariant ==
    \A h \in Handles :
        (guard[h] # None /\ clean[h]) =>
              /\ phase[h] \in {"RAW", "SUSPENDED"}
              /\ phase[h] = "RAW" => live = cfmakeraw(captured[h])
              /\ phase[h] = "SUSPENDED" => live = captured[h]
              /\ live \in {captured[h], cfmakeraw(captured[h])}

\* an undisturbed guard made raw again by an activate after a suspend
LiveAttributeInvariantWitness ==
    \E h \in Handles :
        /\ Did("activate_raw_mode", h) /\ last.ok
        /\ last.pre.phase = "SUSPENDED"
        /\ guard[h] # None /\ clean[h]
        /\ live # captured[h]

\* C16: no retries.  into_raw_mode and activate_raw_mode make one tcgetattr
\* call, followed by one tcsetattr call when the query succeeded and by
\* nothing when it failed; suspend_raw_mode and the destruction make one
\* tcsetattr call; no operation makes more than two calls or repeats one.
NoRetries ==
    \A h \in Handles :
        /\ (Did("into_raw_mode", h) \/ Did("activate_raw_mode", h)) =>
              /\ Len(last.calls) \in {1, 2}
              /\ last.calls[1].name = "tcgetattr"
              /\ Len(GetCalls(last.calls)) = 1
              /\ Len(last.calls) = 2 <=> last.calls[1].rc = 0
              /\ Len(last.calls) = 2 => last.calls[2].name = "tcsetattr"
        /\ (Did("suspend_raw_mode", h) \/ Did("drop", h)) =>
              /\ Len(last.calls) = 1
              /\ last.calls[1].name = "tcsetattr"
        /\ last.h = h => Len(last.calls) <= 2

\* an activate whose apply failed: two calls, no third one
NoRetriesWitness ==
    \E h \in Handles :
        /\ Did("activate_raw_mode", h)
        /\ Len(last.calls) = 2
        /\ last.calls[2].rc = -1

\* C17: two guards on one device.  Let guard h be created while guard k
\* (created over attributes A) is alive.  Once both are destroyed, the last
\* destruction's tcsetattr having succeeded, the live attributes are the
\* saved attributes of the guard destroyed last: A when that is k (reverse
\* order of creation); the snapshot of h when that is h, which is the raw
\* variant of A if h was created while k was in RAW state.
TwoGuards ==
    \A h \in Handles, k \in Handles :
        (/\ h # k /\ over[h] # "none"
         /\ phase[h] = "RESTORED" /\ phase[k] = "RESTORED"
         /\ last.op = "drop" /\ last.ok) =>
              /\ live = captured[last.h]
              /\ last.h = k => live = captured[k]
              /\ last.h = h => live = captured[h]
              /\ (last.h = h /\ over[h] = "raw") =>
                     live = cfmakeraw(captured[k])

\* the first guard is destroyed first: the device is left raw
TwoGuardsWitness ==
    \E h \in Handles, k \in Handles :
        /\ h # k /\ over[h] = "raw"
        /\ phase[h] = "RESTORED" /\ phase[k] = "RESTORED"
        /\ Did("drop", h) /\ last.ok
        /\ live = cfmakeraw(captured[k])
        /\ live # captured[k]

\* C14: transparent forwarding.  A write through the guard reaches the
\* wrapped writer as one write call with the same bytes, a flush as one
\* flush call; the caller gets the wrapped writer's result (the byte count
\* or the error) unchanged; and the bytes the wrapped writer's sink has
\* taken are, in order, the bytes the guard reported as written.
TransparentForwarding ==
    \A h \in Handles :
        /\ Did("write", h) =>
              /\ wlast.inner = <<[name |-> "write", buf |-> wlast.buf]>>
              /\ wlast.res = IF wlast.out = -1 THEN Err ELSE Ok(wlast.out)
              /\ sink[h] = wlast.pre \o
                    SubSeq(wlast.buf, 1, IF wlast.out = -1 THEN 0 ELSE wlast.out)
        /\ Did("flush", h) =>
              /\ wlast.inner = <<[name |-> "flush", buf |-> <<>>]>>
              /\ wlast.res = IF wlast.out = -1 THEN Err ELSE Ok("unit")
              /\ sink[h] = wlast.pre
        /\ sink[h] = sent[h]

\* a short write that follows an earlier write
TransparentForwardingWitness ==
    \E h \in Handles :
        /\ Did("write", h)
        /\ wlast.pre # <<>>
        /\ wlast.res.ok
        /\ wlast.res.val >= 1
        /\ wlast.res.val < Len(wlast.buf)

\* C18: frame of write and flush.  A write or a flush through the guard,
\* successful or not, makes no tcgetattr or tcsetattr call and leaves the
\* live attributes, the guard's saved attributes and its RAW / SUSPENDED
\* state as they were.
WriteFlushFrame ==
    \A h \in Handles :
        (Did("write", h) \/ Did("flush", h)) =>
              /\ last.calls = <<>>
              /\ live = last.pre.live
              /\ guard[h] = last.pre.guard
              /\ guard[h].prev_ios = captured[h]
              /\ phase[h] = last.pre.phase
              /\ restores[h] = 0

\* a failed flush on a suspended guard
WriteFlushFrameWitness ==
    \E h \in Handles :
        /\ Did("flush", h) /\ ~last.ok
        /\ phase[h] = "SUSPENDED"
        /\ live = captured[h]
        /\ live # cfmakeraw(captured[h])

\* C13: unserialized access.  With one thread per guard on the same device,
\* stepping at the system calls: after every successful tcsetattr the live
\* attributes are the ones that call passed (the last call to complete
\* wins); and the apply of activate_raw_mode writes the raw variant of the
\* attributes its own query returned, whatever another thread wrote to the
\* device between the query and the apply.
UnserializedAccess ==
    \A h \in Handles :
        /\ (/\ last.h = h /\ last.calls # <<>>
            /\ last.calls[Len(last.calls)].name = "tcsetattr"
            /\ last.calls[Len(last.calls)].rc = 0) =>
              live = last.calls[Len(last.calls)].arg
        /\ (Did("activate_apply", h) /\ last.ok) =>
              /\ live = cfmakeraw(last.pre.loc.snap)
              /\ last.calls =
                    <<SetCall(as_raw_fd(h), cfmakeraw(last.pre.loc.snap), 0)>>
        /\ ((Did("suspend_raw_mode", h) \/ Did("drop", h)) /\ last.ok) =>
              live = captured[h]

\* the other thread's write landed between the query and the apply and is
\* overwritten from the stale snapshot
UnserializedAccessWitness ==
    \E h \in Handles, k \in Handles :
        /\ h # k
        /\ Did("activate_apply", h) /\ last.ok
        /\ phase[k] \in {"SUSPENDED", "RESTORED"}
        /\ last.pre.live = captured[k]
        /\ last.pre.live # last.pre.loc.snap
        /\ live # last.pre.live

\* the opposite order: the other thread's restoring write completes last
\* and the device is left with the original attributes
RaceEndsOriginal ==
    \E h \in Handles, k \in Handles :
        /\ h # k
        /\ (Did("suspend_raw_mode", k) \/ Did("drop", k)) /\ last.ok
        /\ phase[h] = "RAW" /\ guard[h] # None
        /\ live = captured[k]
        /\ live # cfmakeraw(live)

====
